---- MODULE Spec2Model ----
(***************************************************************************)
(* A model of volatility/framework/plugins/windows/poolscanner.py:         *)
(* the pool constraint catalog (builtin_constraints), the version          *)
(* distinguisher (os_distinguisher), the header validator                  *)
(* (PoolHeaderScanner.__call__) and the scan orchestration (pool_scan,     *)
(* generate_pool_scan, _get_pool_header_module).                           *)
(*                                                                         *)
(* Python's None is the empty tuple NoneV and a present value x is <<x>>,  *)
(* so that None and 0 stay different values.                               *)
(***************************************************************************)
EXTENDS Integers, Sequences, FiniteSets, TLC

VARIABLES
    ctx,                \* the context: version metadata and symbol table of the image
    dist,               \* the distinguisher a classification call is made on
    dres,               \* what that call returned
    tags_filter,        \* the tags_filter argument of builtin_constraints
    entry,              \* which generator the consumer drives
    pc,                 \* position of the running generator
    pool_constraints,   \* the constraint list given to pool_scan
    constraint_lookup,  \* pool_scan's tag -> constraint dictionary
    alignment,          \* PoolHeaderScanner._alignment
    scan_layer,         \* the layer generate_pool_scan chose to scan
    use_top_down,       \* is_windows_8_or_later as computed at the start
    module,             \* the symbol table the _POOL_HEADER layout comes from
    cur,                \* the tag hit in hand: its tag and header fields
    chunk_no,           \* number of the chunk PoolHeaderScanner was last called on
    log,                \* one entry per tag hit the subscanner reported
    emitted,            \* the items the consumer received, as indices into log
    error               \* the exception that ended the generator, if any

vars == <<ctx, dist, dres, tags_filter, entry, pc, pool_constraints,
          constraint_lookup, alignment, scan_layer, use_top_down, module,
          cur, chunk_no, log, emitted, error>>

(***************************************************************************)
(* Bounds of the model.                                                    *)
(***************************************************************************)
MaxChain == 2
MaxFilterLen == 2
MaxConstraints == 3
MaxHits == 2
MaxPoolType == 2

(***************************************************************************)
(* Optional values.                                                        *)
(***************************************************************************)
NoneV == <<>>
Some(x) == <<x>>
IsNone(o) == o = <<>>
Val(o) == o[1]

SeqsUpTo(S, n) == UNION {[1..k -> S] : k \in 0..n}

(***************************************************************************)
(* PoolType: the allocation-class flags, powers of two.                    *)
(***************************************************************************)
PAGED == 1
NONPAGED == 2
FREE == 4

\* Python's  mask & flag  for a flag that is a power of two.
BitAnd(mask, flag) == IF (mask \div flag) % 2 = 1 THEN flag ELSE 0

(***************************************************************************)
(* PoolConstraint.__init__: size, index and page_type default to None and  *)
(* alignment to 1.                                                         *)
(***************************************************************************)
PoolConstraint(tag, type_name, object_type, page_type, size, index) ==
    [tag |-> tag, type_name |-> type_name, object_type |-> object_type,
     page_type |-> page_type, size |-> size, index |-> index, alignment |-> 1]

(***************************************************************************)
(* os_distinguisher.                                                       *)
(***************************************************************************)
\* Python's comparison of two tuples of integers from position i on:
\* -1, 0 or 1; a proper prefix is the smaller tuple.
RECURSIVE TupleCmp(_, _, _)
TupleCmp(x, y, i) ==
    IF i > Len(x) /\ i > Len(y) THEN 0
    ELSE IF i > Len(x) THEN 0 - 1
    ELSE IF i > Len(y) THEN 1
    ELSE IF x[i] < y[i] THEN 0 - 1
    ELSE IF x[i] > y[i] THEN 1
    ELSE TupleCmp(x, y, i + 1)

\* The version_check lambdas: x >= bound, or x == bound.
VersionCheck(vc, x) ==
    IF vc.op = "ge" THEN TupleCmp(x, vc.bound, 1) >= 0 ELSE x = vc.bound

has_symbol(c, name) == name \in c.symbols
has_type(c, name) == name \in c.types
has_member(c, name, member) == <<name, member>> \in c.members

\* One fallback check: TRUE when the loop goes on to the next check, FALSE
\* when the method returns False.
CheckPasses(c, check) ==
    IF IsNone(check.member)
    THEN (has_symbol(c, check.name) \/ has_type(c, check.name)) = check.response
    ELSE IF has_type(c, check.name)
         THEN has_member(c, check.name, Val(check.member)) = check.response
         ELSE \* get_type raised SymbolError:  if not response: return False
              check.response

\* The fallback loop from check i on: the value returned and the number of
\* checks evaluated.
RECURSIVE RunFallback(_, _, _)
RunFallback(c, checks, i) ==
    IF i > Len(checks) THEN [value |-> TRUE, consulted |-> i - 1]
    ELSE IF ~CheckPasses(c, checks[i]) THEN [value |-> FALSE, consulted |-> i]
    ELSE RunFallback(c, checks, i + 1)

\* method with the primary path's return lost: the version check is evaluated
\* and the fallback chain decides.
method_PrimaryNotReturned(d, c) ==
    IF d.fallback_checks = <<>>
    THEN [error |-> "ValueError", value |-> FALSE, consulted |-> 0]
    ELSE LET r == RunFallback(c, d.fallback_checks, 1)
         IN  [error |-> "", value |-> r.value, consulted |-> r.consulted]

\* method without "if not fallback_checks: raise ValueError": the loop over
\* an empty chain runs no check and the method returns True.
method_EmptyChainAccepted(d, c) ==
    IF Len(c.pe_version) = 4
    THEN [error |-> "", value |-> VersionCheck(d.version_check, c.pe_version),
          consulted |-> 0]
    ELSE LET r == RunFallback(c, d.fallback_checks, 1)
         IN  [error |-> "", value |-> r.value, consulted |-> r.consulted]

\* The classification of context c by distinguisher d.  Unpacking pe_version
\* into four names fails for missing metadata and for a tuple that does not
\* hold four values.
method(d, c) ==
    IF Len(c.pe_version) = 4
    THEN [error |-> "", value |-> VersionCheck(d.version_check, c.pe_version),
          consulted |-> 0]
    ELSE IF d.fallback_checks = <<>>
    THEN [error |-> "ValueError", value |-> FALSE, consulted |-> 0]
    ELSE LET r == RunFallback(c, d.fallback_checks, 1)
         IN  [error |-> "", value |-> r.value, consulted |-> r.consulted]

Check(name, member, response) ==
    [name |-> name, member |-> member, response |-> response]

is_windows_10 ==
    [version_check |-> [op |-> "ge", bound |-> <<10, 0>>],
     fallback_checks |-> <<Check("ObHeaderCookie", NoneV, TRUE)>>]

is_windows_8_or_later ==
    [version_check |-> [op |-> "ge", bound |-> <<6, 2>>],
     fallback_checks |-> <<Check("_HANDLE_TABLE", Some("HandleCount"), FALSE)>>]

is_windows_7 ==
    [version_check |-> [op |-> "eq", bound |-> <<6, 1>>],
     fallback_checks |-> <<Check("_OBJECT_HEADER", Some("TypeIndex"), TRUE),
                           Check("_HANDLE_TABLE", Some("HandleCount"), TRUE)>>]

(***************************************************************************)
(* The images and distinguishers a classification call is checked on.      *)
(***************************************************************************)
\* A context: the version metadata and symbol table of the image, and which
\* pool headers its layers hold behind the tags ("sample" or "every": see
\* LayerHeaders).
Context(v, syms, types, members, is64, headers) ==
    [pe_version |-> v, symbols |-> syms, types |-> types, members |-> members,
     is_64bit |-> is64, headers |-> headers]

\* Version metadata: missing, malformed (three values), or a 4-tuple.
Versions ==
    {NoneV, <<6, 1, 7601>>}
    \cup {<<ma, mi, rev, 0>> : ma \in {5, 6, 10}, mi \in {0, 1, 2}, rev \in {0, 7601}}

\* Symbol tables over one symbol and one type with one member.
DistContexts ==
    {Context(v, syms, types, members, TRUE, "sample") :
        v \in Versions,
        syms \in SUBSET {"ObHeaderCookie"},
        types \in SUBSET {"_HANDLE_TABLE"},
        members \in SUBSET {<<"_HANDLE_TABLE", "HandleCount">>}}

DistChecks ==
    {Check(n, m, r) : n \in {"ObHeaderCookie", "_HANDLE_TABLE"},
                      m \in {NoneV, Some("HandleCount")}, r \in BOOLEAN}

Distinguishers ==
    {[version_check |-> vc, fallback_checks |-> ch] :
        vc \in {is_windows_10.version_check, is_windows_8_or_later.version_check,
                is_windows_7.version_check},
        ch \in SeqsUpTo(DistChecks, MaxChain)}

NoResult == [error |-> "", value |-> FALSE, consulted |-> 0]
NoHit == [tag |-> "", BlockSize |-> NoneV, PoolType |-> NoneV, index |-> NoneV]

\* The variables a specification does not use.
IdleScan ==
    /\ tags_filter = NoneV
    /\ entry = "none"
    /\ pool_constraints = <<>>
    /\ constraint_lookup = <<>>
    /\ alignment = 8
    /\ scan_layer = ""
    /\ use_top_down = FALSE
    /\ module = ""
    /\ cur = NoHit
    /\ chunk_no = 0
    /\ log = <<>>
    /\ emitted = <<>>
    /\ error = ""

InitDist ==
    /\ ctx \in {c \in DistContexts : c.members # {} => c.types # {}}
    /\ dist \in Distinguishers
    /\ dres = NoResult
    /\ pc = "classify"
    /\ IdleScan

\* A call of the function os_distinguisher returned.
Classify ==
    /\ pc = "classify"
    /\ dres' = method(dist, ctx)
    /\ pc' = "classified"
    /\ UNCHANGED <<ctx, dist, tags_filter, entry, pool_constraints,
                   constraint_lookup, alignment, scan_layer, use_top_down,
                   module, cur, chunk_no, log, emitted, error>>

NextDist == Classify

SpecDist == InitDist /\ [][NextDist]_vars

(***************************************************************************)
(* PoolScanner.builtin_constraints.                                        *)
(***************************************************************************)
AllPoolTypes == PAGED + NONPAGED + FREE

\* The catalog with the second _EPROCESS entry carrying the tag of the
\* first.
builtins_ProcessTagTwice(symbol_table) == <<
    PoolConstraint("AtmT", <<symbol_table, "_RTL_ATOM_TABLE">>, NoneV,
                   Some(AllPoolTypes), Some(<<Some(200), NoneV>>), NoneV),
    PoolConstraint("Pro_e3", <<symbol_table, "_EPROCESS">>, Some("Process"),
                   Some(AllPoolTypes), Some(<<Some(600), NoneV>>), NoneV),
    PoolConstraint("Pro_e3", <<symbol_table, "_EPROCESS">>, Some("Process"),
                   Some(AllPoolTypes), Some(<<Some(600), NoneV>>), NoneV),
    PoolConstraint("Fil_e5", <<symbol_table, "_FILE_OBJECT">>, Some("File"),
                   Some(AllPoolTypes), Some(<<Some(150), NoneV>>), NoneV),
    PoolConstraint("File", <<symbol_table, "_FILE_OBJECT">>, Some("File"),
                   Some(AllPoolTypes), Some(<<Some(150), NoneV>>), NoneV),
    PoolConstraint("Mut_e1", <<symbol_table, "_KMUTANT">>, Some("Mutant"),
                   Some(AllPoolTypes), Some(<<Some(64), NoneV>>), NoneV),
    PoolConstraint("Muta", <<symbol_table, "_KMUTANT">>, Some("Mutant"),
                   Some(AllPoolTypes), Some(<<Some(64), NoneV>>), NoneV),
    PoolConstraint("Dri_f6", <<symbol_table, "_DRIVER_OBJECT">>, Some("Driver"),
                   Some(AllPoolTypes), Some(<<Some(248), NoneV>>), NoneV),
    PoolConstraint("Driv", <<symbol_table, "_DRIVER_OBJECT">>, Some("Driver"),
                   Some(AllPoolTypes), Some(<<Some(248), NoneV>>), NoneV),
    PoolConstraint("MmLd", <<symbol_table, "_LDR_DATA_TABLE_ENTRY">>, NoneV,
                   Some(AllPoolTypes), Some(<<Some(76), NoneV>>), NoneV),
    PoolConstraint("Sym_e2", <<symbol_table, "_OBJECT_SYMBOLIC_LINK">>,
                   Some("SymbolicLink"),
                   Some(AllPoolTypes), Some(<<Some(72), NoneV>>), NoneV),
    PoolConstraint("Symb", <<symbol_table, "_OBJECT_SYMBOLIC_LINK">>,
                   Some("SymbolicLink"),
                   Some(AllPoolTypes), Some(<<Some(72), NoneV>>), NoneV),
    PoolConstraint("CM10", <<symbol_table, "_CMHIVE">>, NoneV,
                   Some(AllPoolTypes), Some(<<Some(800), NoneV>>), NoneV) >>

\* The built-in catalog; type_name is symbol_table + BANG + the type's name,
\* kept as a pair, and the tag bytes \xe3, \xe5, ... are spelled _e3, _e5, ...
builtins(symbol_table) == <<
    PoolConstraint("AtmT", <<symbol_table, "_RTL_ATOM_TABLE">>, NoneV,
                   Some(AllPoolTypes), Some(<<Some(200), NoneV>>), NoneV),
    PoolConstraint("Pro_e3", <<symbol_table, "_EPROCESS">>, Some("Process"),
                   Some(AllPoolTypes), Some(<<Some(600), NoneV>>), NoneV),
    PoolConstraint("Proc", <<symbol_table, "_EPROCESS">>, Some("Process"),
                   Some(AllPoolTypes), Some(<<Some(600), NoneV>>), NoneV),
    PoolConstraint("Fil_e5", <<symbol_table, "_FILE_OBJECT">>, Some("File"),
                   Some(AllPoolTypes), Some(<<Some(150), NoneV>>), NoneV),
    PoolConstraint("File", <<symbol_table, "_FILE_OBJECT">>, Some("File"),
                   Some(AllPoolTypes), Some(<<Some(150), NoneV>>), NoneV),
    PoolConstraint("Mut_e1", <<symbol_table, "_KMUTANT">>, Some("Mutant"),
                   Some(AllPoolTypes), Some(<<Some(64), NoneV>>), NoneV),
    PoolConstraint("Muta", <<symbol_table, "_KMUTANT">>, Some("Mutant"),
                   Some(AllPoolTypes), Some(<<Some(64), NoneV>>), NoneV),
    PoolConstraint("Dri_f6", <<symbol_table, "_DRIVER_OBJECT">>, Some("Driver"),
                   Some(AllPoolTypes), Some(<<Some(248), NoneV>>), NoneV),
    PoolConstraint("Driv", <<symbol_table, "_DRIVER_OBJECT">>, Some("Driver"),
                   Some(AllPoolTypes), Some(<<Some(248), NoneV>>), NoneV),
    PoolConstraint("MmLd", <<symbol_table, "_LDR_DATA_TABLE_ENTRY">>, NoneV,
                   Some(AllPoolTypes), Some(<<Some(76), NoneV>>), NoneV),
    PoolConstraint("Sym_e2", <<symbol_table, "_OBJECT_SYMBOLIC_LINK">>,
                   Some("SymbolicLink"),
                   Some(AllPoolTypes), Some(<<Some(72), NoneV>>), NoneV),
    PoolConstraint("Symb", <<symbol_table, "_OBJECT_SYMBOLIC_LINK">>,
                   Some("SymbolicLink"),
                   Some(AllPoolTypes), Some(<<Some(72), NoneV>>), NoneV),
    PoolConstraint("CM10", <<symbol_table, "_CMHIVE">>, NoneV,
                   Some(AllPoolTypes), Some(<<Some(800), NoneV>>), NoneV) >>

Range(s) == {s[i] : i \in DOMAIN s}

\* builtin_constraints looping over the filter's tags instead of the catalog.
RECURSIVE ByFilterOrder(_, _, _)
ByFilterOrder(catalog, tags, i) ==
    IF i > Len(tags) THEN <<>>
    ELSE SelectSeq(catalog, LAMBDA constraint : constraint.tag = tags[i])
         \o ByFilterOrder(catalog, tags, i + 1)

builtin_constraints_FilterOrder(st, filter) ==
    IF IsNone(filter) \/ Val(filter) = <<>>
    THEN builtins(st)
    ELSE ByFilterOrder(builtins(st), Val(filter), 1)

\* if not tags_filter: return builtins  -- None and the empty list are both
\* false; otherwise the catalog entries whose tag is in the list.
builtin_constraints(symbol_table, filter) ==
    IF IsNone(filter) \/ Val(filter) = <<>>
    THEN builtins(symbol_table)
    ELSE SelectSeq(builtins(symbol_table),
                   LAMBDA constraint : constraint.tag \in Range(Val(filter)))

(***************************************************************************)
(* PoolScanner.pool_scan: the lookup dictionary and the duplicate check.   *)
(***************************************************************************)
\* The setup loop from constraint i on: the dictionary built, or the
\* ValueError raised at the first tag that is already a key.
RECURSIVE BuildLookup(_, _, _)
BuildLookup(cs, i, lookup) ==
    IF i > Len(cs) THEN [error |-> "", lookup |-> lookup]
    ELSE IF cs[i].tag \in DOMAIN lookup THEN [error |-> "ValueError", lookup |-> lookup]
    ELSE BuildLookup(cs, i + 1,
                     [t \in DOMAIN lookup \cup {cs[i].tag} |->
                         IF t = cs[i].tag THEN cs[i] ELSE lookup[t]])

(***************************************************************************)
(* PoolScanner._get_pool_header_module: the symbol table that provides      *)
(* _POOL_HEADER.                                                           *)
(***************************************************************************)
get_pool_header_module(c, symbol_table) ==
    IF has_type(c, "_POOL_HEADER") THEN symbol_table
    ELSE IF c.is_64bit
         THEN IF method(is_windows_7, c).value
              THEN "poolheader-x64-win7"
              ELSE "poolheader-x64"
         ELSE "poolheader-x86"

(***************************************************************************)
(* PoolHeaderScanner.__call__: the checks made on one tag hit.  A header   *)
(* field is NoneV when reading it raises InvalidAddressException; a field  *)
(* is read only where the code evaluates it.                               *)
(***************************************************************************)
\* Python's truth value of an Optional[int]: None and 0 are false.
Truthy(o) == ~IsNone(o) /\ Val(o) # 0

SizeCheck(c, a, h) ==
    IF IsNone(c.size) THEN "pass"
    ELSE LET lo == Val(c.size)[1]
             hi == Val(c.size)[2]
         IN  IF Truthy(lo) /\ IsNone(h.BlockSize) THEN "InvalidAddressException"
             ELSE IF Truthy(lo) /\ a * Val(h.BlockSize) < Val(lo) THEN "continue"
             ELSE IF Truthy(hi) /\ IsNone(h.BlockSize) THEN "InvalidAddressException"
             ELSE IF Truthy(hi) /\ a * Val(h.BlockSize) > Val(hi) THEN "continue"
             ELSE "pass"

\* TypeCheck without "header.PoolType > 0" in the PAGED clause.
TypeCheck_ZeroIsPaged(c, h) ==
    IF IsNone(c.page_type) THEN "pass"
    ELSE LET pt == Val(c.page_type)
             v == Val(h.PoolType)
         IN  IF BitAnd(pt, FREE) = 0 /\ BitAnd(pt, PAGED) = 0 /\ BitAnd(pt, NONPAGED) = 0
             THEN "continue"
             ELSE IF IsNone(h.PoolType) THEN "InvalidAddressException"
             ELSE IF \/ BitAnd(pt, FREE) # 0 /\ v = 0
                     \/ BitAnd(pt, PAGED) # 0 /\ v % 2 = 0
                     \/ BitAnd(pt, NONPAGED) # 0 /\ v % 2 = 1
                  THEN "pass"
                  ELSE "continue"

TypeCheck(c, h) ==
    IF IsNone(c.page_type) THEN "pass"
    ELSE LET pt == Val(c.page_type)
             v == Val(h.PoolType)
             \* header.PoolType is evaluated by the first clause whose flag is set
             reads == \/ BitAnd(pt, FREE) # 0
                      \/ BitAnd(pt, PAGED) # 0
                      \/ BitAnd(pt, NONPAGED) # 0
             checks_pass ==
                 IF BitAnd(pt, FREE) # 0 /\ v = 0 THEN TRUE
                 ELSE IF BitAnd(pt, PAGED) # 0 /\ v % 2 = 0 /\ v > 0 THEN TRUE
                 ELSE IF BitAnd(pt, NONPAGED) # 0 /\ v % 2 = 1 THEN TRUE
                 ELSE FALSE
         IN  IF ~reads THEN "continue"
             ELSE IF IsNone(h.PoolType) THEN "InvalidAddressException"
             ELSE IF checks_pass THEN "pass"
             ELSE "continue"

IndexCheck(c, h) ==
    IF IsNone(c.index) THEN "pass"
    ELSE LET lo == Val(c.index)[1]
             hi == Val(c.index)[2]
         IN  IF Truthy(lo) /\ IsNone(h.index) THEN "InvalidAddressException"
             ELSE IF Truthy(lo) /\ Val(h.index) < Val(lo) THEN "continue"
             ELSE IF Truthy(hi) /\ IsNone(h.index) THEN "InvalidAddressException"
             ELSE IF Truthy(hi) /\ Val(h.index) > Val(hi) THEN "continue"
             ELSE "pass"

\* The body of the try block.
Checks(c, a, h) ==
    IF SizeCheck(c, a, h) # "pass" THEN SizeCheck(c, a, h)
    ELSE IF TypeCheck(c, h) # "pass" THEN TypeCheck(c, h)
    ELSE IndexCheck(c, h)

\* ValidateHit without the except clause.
ValidateHit_NoExcept(c, a, h) ==
    LET r == Checks(c, a, h)
    IN  IF r = "pass" THEN "yield" ELSE r

\* One iteration of the loop over the subscanner's hits: "yield", "continue",
\* or the exception that leaves __call__.
ValidateHit(c, a, h) ==
    LET r == Checks(c, a, h)
    IN  IF r = "InvalidAddressException" THEN "continue"   \* except: continue
        ELSE IF r = "pass" THEN "yield"
        ELSE "continue"

(***************************************************************************)
(* The inputs of a scan.                                                   *)
(***************************************************************************)
symbol_table == "nt_symbols"
layer_name == "primary"
memory_layer == "memory_layer"

\* A type with one member of interest: absent, present without the member,
\* present with it.
TypeStates(t, m) ==
    {[types |-> {}, members |-> {}],
     [types |-> {t}, members |-> {}],
     [types |-> {t}, members |-> {<<t, m>>}]}

\* _POOL_HEADER in the kernel's own table, or the architecture of a table
\* without it.
HeaderStates ==
    {[types |-> {"_POOL_HEADER"}, is_64bit |-> TRUE],
     [types |-> {}, is_64bit |-> TRUE],
     [types |-> {}, is_64bit |-> FALSE]}

Header(bs, pt, ix) == [BlockSize |-> bs, PoolType |-> pt, index |-> ix]

\* What a read of a header field gives: a value, or NoneV for an unmapped
\* address.
BlockSizeReads == {NoneV} \cup {Some(n) : n \in {10, 20}}
PoolTypeReads == {NoneV} \cup {Some(n) : n \in 0..MaxPoolType}
IndexReads == {NoneV} \cup {Some(n) : n \in {0, 2}}

AllHeaders ==
    {Header(bs, pt, ix) : bs \in BlockSizeReads, pt \in PoolTypeReads, ix \in IndexReads}

\* A paged allocation of 160 bytes, one of 80 bytes, and an unmapped header.
ScanHeaders ==
    {Header(Some(20), Some(2), Some(0)), Header(Some(10), Some(2), Some(0)),
     Header(NoneV, NoneV, NoneV)}

LayerHeaders(c) == IF c.headers = "every" THEN AllHeaders ELSE ScanHeaders

\* Images with version metadata, and images without it over every state of
\* the symbols and types the three distinguishers look at.
ScanContexts ==
    {Context(v, {}, p.types, {}, p.is_64bit, "sample") :
        v \in {<<6, 1, 7601, 0>>, <<10, 0, 0, 0>>}, p \in HeaderStates}
    \cup
    {Context(NoneV, syms, h.types \cup o.types \cup p.types,
             h.members \cup o.members, p.is_64bit, "sample") :
        syms \in SUBSET {"ObHeaderCookie"},
        h \in TypeStates("_HANDLE_TABLE", "HandleCount"),
        o \in TypeStates("_OBJECT_HEADER", "TypeIndex"),
        p \in HeaderStates}

SizeBounds ==
    {NoneV, Some(<<Some(150), NoneV>>),
     Some(<<NoneV, Some(100)>>), Some(<<Some(0), NoneV>>),
     Some(<<NoneV, Some(0)>>), Some(<<Some(100), Some(160)>>)}
PageTypes == {NoneV} \cup {Some(m) : m \in 0..AllPoolTypes}
IndexBounds == {NoneV, Some(<<Some(1), NoneV>>)}

FileConstraint == builtins(symbol_table)[5]
PlainConstraint(tag) ==
    PoolConstraint(tag, <<symbol_table, "_OBJECT">>, NoneV, NoneV, NoneV, NoneV)

\* The constraints a scanner is built on: tag File under every combination of
\* the filters.
HeaderScanConstraints ==
    {PoolConstraint("File", <<symbol_table, "_FILE_OBJECT">>, Some("File"), p, s, i) :
        p \in PageTypes, s \in SizeBounds, i \in IndexBounds}

HeaderScanLookups ==
    {[t \in {"File"} |-> c] : c \in HeaderScanConstraints}
    \cup {[t \in {"File", "AAAA"} |->
              IF t = "File" THEN FileConstraint ELSE PlainConstraint("AAAA")]}

\* The constraint lists a caller hands to pool_scan.
ScanConstraints == {FileConstraint, PlainConstraint("AAAA")}

(***************************************************************************)
(* The scan: generate_pool_scan driving pool_scan driving                  *)
(* PoolHeaderScanner over the hits of the layer.                           *)
(***************************************************************************)
IdleDist ==
    /\ dist = is_windows_10
    /\ dres = NoResult

Init ==
    /\ ctx \in ScanContexts
    /\ IdleDist
    /\ tags_filter = NoneV
    /\ entry \in {"generate_pool_scan", "pool_scan"}
    /\ pc = IF entry = "pool_scan" THEN "pool_scan" ELSE "created"
    /\ pool_constraints \in SeqsUpTo(ScanConstraints, MaxConstraints)
    /\ constraint_lookup = <<>>
    /\ alignment = 8
    /\ scan_layer = IF entry = "pool_scan" THEN layer_name ELSE ""
    /\ use_top_down = FALSE
    /\ module = ""
    /\ cur = NoHit
    /\ chunk_no = 0
    /\ log = <<>>
    /\ emitted = <<>>
    /\ error = ""

\* GenStart with the test of is_windows_10 inverted.
GenStart_LayerInverted ==
    /\ entry = "generate_pool_scan"
    /\ pc = "created"
    /\ scan_layer' = IF method(is_windows_10, ctx).value
                     THEN memory_layer
                     ELSE layer_name
    /\ use_top_down' = method(is_windows_8_or_later, ctx).value
    /\ pc' = "pool_scan"
    /\ UNCHANGED <<ctx, dist, dres, tags_filter, entry, pool_constraints,
                   constraint_lookup, alignment, module, cur, chunk_no, log,
                   emitted, error>>

\* generate_pool_scan up to its call of pool_scan: the two classifications
\* and the choice of the layer.  (get_type_map and find_cookie, called first,
\* belong to the handles plugin and change nothing of the scan's state.)
GenStart ==
    /\ entry = "generate_pool_scan"
    /\ pc = "created"
    /\ scan_layer' = IF method(is_windows_10, ctx).value
                     THEN layer_name
                     ELSE memory_layer
    /\ use_top_down' = method(is_windows_8_or_later, ctx).value
    /\ pc' = "pool_scan"
    /\ UNCHANGED <<ctx, dist, dres, tags_filter, entry, pool_constraints,
                   constraint_lookup, alignment, module, cur, chunk_no, log,
                   emitted, error>>

\* The dictionary built without the membership test: a later constraint
\* replaces an earlier one of the same tag.
RECURSIVE BuildLookupLastWins(_, _, _)
BuildLookupLastWins(cs, i, lookup) ==
    IF i > Len(cs) THEN lookup
    ELSE BuildLookupLastWins(cs, i + 1,
                             [t \in DOMAIN lookup \cup {cs[i].tag} |->
                                 IF t = cs[i].tag THEN cs[i] ELSE lookup[t]])

PoolScanSetup_LastWins ==
    /\ pc = "pool_scan"
    /\ constraint_lookup' = BuildLookupLastWins(pool_constraints, 1, <<>>)
    /\ pc' = "lookup_built"
    /\ UNCHANGED <<ctx, dist, dres, tags_filter, entry, pool_constraints,
                   alignment, scan_layer, use_top_down, module, cur, chunk_no,
                   log, emitted, error>>

\* pool_scan: the setup of the pattern.
PoolScanSetup ==
    /\ pc = "pool_scan"
    /\ LET r == BuildLookup(pool_constraints, 1, <<>>)
       IN  IF r.error # ""
           THEN /\ error' = r.error
                /\ pc' = "error"
                /\ UNCHANGED constraint_lookup
           ELSE /\ constraint_lookup' = r.lookup
                /\ pc' = "lookup_built"
                /\ UNCHANGED error
    /\ UNCHANGED <<ctx, dist, dres, tags_filter, entry, pool_constraints,
                   alignment, scan_layer, use_top_down, module, cur, chunk_no,
                   log, emitted>>

\* pool_scan: the header layout is resolved.
GetPoolHeaderModule ==
    /\ pc = "lookup_built"
    /\ module' = get_pool_header_module(ctx, symbol_table)
    /\ pc' = "module_ready"
    /\ UNCHANGED <<ctx, dist, dres, tags_filter, entry, pool_constraints,
                   constraint_lookup, alignment, scan_layer, use_top_down, cur,
                   chunk_no, log, emitted, error>>

\* pool_scan: the scanner is built and the layer scan started.
LayerScanStart ==
    /\ pc = "module_ready"
    /\ pc' = "scanning"
    /\ UNCHANGED <<ctx, dist, dres, tags_filter, entry, pool_constraints,
                   constraint_lookup, alignment, scan_layer, use_top_down,
                   module, cur, chunk_no, log, emitted, error>>

LogEntry(chunk, layer, invalid, outcome) ==
    [chunk |-> chunk, layer |-> layer, invalid |-> invalid, outcome |-> outcome,
     recon |-> 0, result |-> "", top_down |-> NoneV]

\* The subscanner reports the next tag hit of the layer, in the chunk in hand
\* or in a later one, and PoolHeaderScanner validates it.  An accepted hit is
\* handed to generate_pool_scan, or to the consumer of pool_scan.
ScannerHit ==
    /\ pc = "scanning"
    /\ Len(log) < MaxHits
    /\ \E tag \in DOMAIN constraint_lookup, hd \in LayerHeaders(ctx),
          new_chunk \in BOOLEAN :
          LET h == [tag |-> tag, BlockSize |-> hd.BlockSize,
                    PoolType |-> hd.PoolType, index |-> hd.index]
              c == constraint_lookup[tag]
              r == ValidateHit(c, alignment, h)
              chunk == IF new_chunk \/ chunk_no = 0 THEN chunk_no + 1 ELSE chunk_no
              invalid == Checks(c, alignment, h) = "InvalidAddressException"
              outcome == IF r = "yield"
                         THEN IF entry = "generate_pool_scan" THEN "matched" ELSE "emitted"
                         ELSE IF r = "continue" THEN "rejected" ELSE "raised"
          IN  /\ cur' = h
              /\ chunk_no' = chunk
              /\ log' = Append(log, LogEntry(chunk, scan_layer, invalid, outcome))
              /\ emitted' = IF outcome = "emitted"
                            THEN Append(emitted, Len(log) + 1)
                            ELSE emitted
              /\ pc' = IF outcome = "matched" THEN "matched"
                       ELSE IF outcome = "emitted" THEN "yielded"
                       ELSE IF outcome = "rejected" THEN "scanning"
                       ELSE "error"
              /\ error' = IF outcome = "raised" THEN r ELSE error
    /\ UNCHANGED <<ctx, dist, dres, tags_filter, entry, pool_constraints,
                   constraint_lookup, alignment, scan_layer, use_top_down,
                   module>>

\* Reconstruct without the "continue" after a None.
Reconstruct_YieldsNone ==
    /\ pc = "matched"
    /\ \E mem_object \in {"record", "None"} :
          /\ log' = [log EXCEPT ![Len(log)] =
                        [@ EXCEPT !.recon = @ + 1,
                                  !.result = mem_object,
                                  !.top_down = Some(use_top_down),
                                  !.outcome = "emitted"]]
          /\ emitted' = Append(emitted, Len(log))
          /\ pc' = "yielded"
    /\ UNCHANGED <<ctx, dist, dres, tags_filter, entry, pool_constraints,
                   constraint_lookup, alignment, scan_layer, use_top_down,
                   module, cur, chunk_no, error>>

\* generate_pool_scan: header.get_object on the hit in hand returns a record
\* or None; a record is yielded with its constraint and header.
Reconstruct ==
    /\ pc = "matched"
    /\ \E mem_object \in {"record", "None"} :
          /\ log' = [log EXCEPT ![Len(log)] =
                        [@ EXCEPT !.recon = @ + 1,
                                  !.result = mem_object,
                                  !.top_down = Some(use_top_down),
                                  !.outcome = IF mem_object = "None"
                                              THEN "dropped" ELSE "emitted"]]
          /\ emitted' = IF mem_object = "None" THEN emitted
                        ELSE Append(emitted, Len(log))
          /\ pc' = IF mem_object = "None" THEN "scanning" ELSE "yielded"
    /\ UNCHANGED <<ctx, dist, dres, tags_filter, entry, pool_constraints,
                   constraint_lookup, alignment, scan_layer, use_top_down,
                   module, cur, chunk_no, error>>

\* The consumer asks for the next item.
Pull ==
    /\ pc = "yielded"
    /\ pc' = "scanning"
    /\ UNCHANGED <<ctx, dist, dres, tags_filter, entry, pool_constraints,
                   constraint_lookup, alignment, scan_layer, use_top_down,
                   module, cur, chunk_no, log, emitted, error>>

\* The layer holds no further hit.
ScanEnd ==
    /\ pc = "scanning"
    /\ pc' = "done"
    /\ UNCHANGED <<ctx, dist, dres, tags_filter, entry, pool_constraints,
                   constraint_lookup, alignment, scan_layer, use_top_down,
                   module, cur, chunk_no, log, emitted, error>>

Next ==
    \/ GenStart
    \/ PoolScanSetup
    \/ GetPoolHeaderModule
    \/ LayerScanStart
    \/ ScannerHit
    \/ Reconstruct
    \/ Pull
    \/ ScanEnd

Spec == Init /\ [][Next]_vars

(***************************************************************************)
(* A PoolHeaderScanner on its own: built on a lookup and driven by the     *)
(* layer's scan.                                                           *)
(***************************************************************************)
InitHeaderScan ==
    /\ ctx = Context(<<10, 0, 0, 0>>, {}, {"_POOL_HEADER"}, {}, TRUE, "every")
    /\ IdleDist
    /\ tags_filter = NoneV
    /\ entry = "PoolHeaderScanner"
    /\ pc = "scanning"
    /\ pool_constraints = <<>>
    /\ constraint_lookup \in HeaderScanLookups
    /\ alignment = 8
    /\ scan_layer = layer_name
    /\ use_top_down = FALSE
    /\ module = symbol_table
    /\ cur = NoHit
    /\ chunk_no = 0
    /\ log = <<>>
    /\ emitted = <<>>
    /\ error = ""

NextHeaderScan ==
    \/ ScannerHit
    \/ Pull
    \/ ScanEnd

SpecHeaderScan == InitHeaderScan /\ [][NextHeaderScan]_vars

(***************************************************************************)
(* builtin_constraints, and pool_scan's setup on the list it returns.      *)
(***************************************************************************)
FilterTags == {builtins(symbol_table)[i].tag : i \in 1..Len(builtins(symbol_table))}
              \cup {"XXXX"}

InitCatalog ==
    /\ ctx = Context(<<10, 0, 0, 0>>, {}, {"_POOL_HEADER"}, {}, TRUE, "sample")
    /\ IdleDist
    /\ tags_filter \in {NoneV} \cup {Some(f) : f \in SeqsUpTo(FilterTags, MaxFilterLen)}
    /\ entry = "builtin_constraints"
    /\ pc = "catalog"
    /\ pool_constraints = <<>>
    /\ constraint_lookup = <<>>
    /\ alignment = 8
    /\ scan_layer = layer_name
    /\ use_top_down = FALSE
    /\ module = ""
    /\ cur = NoHit
    /\ chunk_no = 0
    /\ log = <<>>
    /\ emitted = <<>>
    /\ error = ""

\* builtin_constraints returns, and its list is handed to pool_scan.
BuiltinConstraints ==
    /\ pc = "catalog"
    /\ pool_constraints' = builtin_constraints(symbol_table, tags_filter)
    /\ pc' = "pool_scan"
    /\ UNCHANGED <<ctx, dist, dres, tags_filter, entry, constraint_lookup,
                   alignment, scan_layer, use_top_down, module, cur, chunk_no,
                   log, emitted, error>>

NextCatalog ==
    \/ BuiltinConstraints
    \/ PoolScanSetup

SpecCatalog == InitCatalog /\ [][NextCatalog]_vars

(***************************************************************************)
(* The claims.                                                             *)
(***************************************************************************)
HasDuplicateTag(cs) == \E i, j \in DOMAIN cs : i # j /\ cs[i].tag = cs[j].tag

Last(sq) == sq[Len(sq)]

\* C1: a constraint list in which two entries share a tag makes pool_scan
\* (also when generate_pool_scan drives it) end with the configuration error
\* before the header layout is resolved and before the layer scan starts: no
\* hit is validated and nothing is emitted.
C1_DuplicateTagFailsBeforeScan ==
    HasDuplicateTag(pool_constraints) =>
        /\ pc \in {"created", "pool_scan", "error"}
        /\ pc = "error" => error = "ValueError"
        /\ constraint_lookup = <<>>
        /\ module = ""
        /\ log = <<>>
        /\ emitted = <<>>

C1_Witness ==
    /\ entry = "generate_pool_scan"
    /\ HasDuplicateTag(pool_constraints)
    /\ pc = "error"
    /\ error = "ValueError"
    /\ scan_layer # ""

\* C2: every emitted (constraint, header) whose constraint has size bounds
\* has alignment * BlockSize >= min when min is present and <= max when max is
\* present, whatever integer a present bound is, 0 included.
C2_EmittedWithinSizeBounds ==
    (pc = "yielded" /\ ~IsNone(cur.BlockSize)) =>
        LET c == constraint_lookup[cur.tag]
            effective_size == alignment * Val(cur.BlockSize)
        IN  ~IsNone(c.size) =>
                /\ ~IsNone(Val(c.size)[1]) => Val(Val(c.size)[1]) <= effective_size
                /\ ~IsNone(Val(c.size)[2]) => effective_size <= Val(Val(c.size)[2])

\* The class a PoolType code decodes to: 0 is FREE, an even positive code
\* PAGED, an odd code NONPAGED.
DecodedClass(code) ==
    IF code = 0 THEN FREE ELSE IF code % 2 = 0 THEN PAGED ELSE NONPAGED

\* C3: the PoolType code of a hit passes the type check of exactly one
\* single-flag constraint, the one of its decoded class; and a hit that passes
\* the other checks of a constraint with a page_type is emitted if and only if
\* its decoded class is among the flags of that page_type.
C3_AllocationClassDecode ==
    (log # <<>> /\ ~IsNone(cur.PoolType)) =>
        LET c == constraint_lookup[cur.tag]
            class == DecodedClass(Val(cur.PoolType))
        IN  /\ \A f \in {PAGED, NONPAGED, FREE} :
                   (TypeCheck([c EXCEPT !.page_type = Some(f)], cur) = "pass")
                       <=> (f = class)
            /\ ( /\ ~IsNone(c.page_type)
                 /\ SizeCheck(c, alignment, cur) = "pass"
                 /\ IndexCheck(c, cur) = "pass" )
               => ((Last(log).outcome = "emitted")
                       <=> (BitAnd(Val(c.page_type), class) # 0))

C3_Witness ==
    /\ log # <<>>
    /\ cur.PoolType = Some(0)
    /\ constraint_lookup[cur.tag].page_type = Some(FREE + NONPAGED)
    /\ ~IsNone(constraint_lookup[cur.tag].size)
    /\ Last(log).outcome = "emitted"

\* C4: a hit for which a read of a header field raised is rejected and not
\* emitted, the scan does not end with an error, and every hit, also one that
\* follows such a hit, is emitted exactly when its checks pass.
C4_UnreadableHitRejectedScanContinues ==
    /\ error = ""
    /\ pc # "error"
    /\ log # <<>> =>
          LET c == constraint_lookup[cur.tag]
          IN  /\ Last(log).invalid =>
                    /\ Last(log).outcome = "rejected"
                    /\ Len(log) \notin Range(emitted)
                    /\ pc \in {"scanning", "done"}
              /\ ( /\ ~IsNone(c.size)
                   /\ Truthy(Val(c.size)[1])
                   /\ IsNone(cur.BlockSize) ) => Last(log).invalid
              /\ (Last(log).outcome = "emitted")
                    <=> (Checks(c, alignment, cur) = "pass")
              /\ (Last(log).outcome = "emitted") <=> (Len(log) \in Range(emitted))

C4_Witness ==
    \E i, j \in DOMAIN log :
        /\ i < j
        /\ log[i].invalid
        /\ log[i].chunk = log[j].chunk
        /\ log[j].outcome = "emitted"
        /\ emitted = <<j>>

\* What the documentation says of one fallback check.
DocumentedCheckPasses(c, check) ==
    IF IsNone(check.member)
    THEN (has_symbol(c, check.name) \/ has_type(c, check.name)) = check.response
    ELSE IF ~has_type(c, check.name)
         THEN check.response = FALSE
         ELSE has_member(c, check.name, Val(check.member)) = check.response

\* C5: without version metadata and with a non-empty chain the
\* classification is true if and only if every check of the chain passes,
\* where a check on a member of a type that cannot be resolved passes exactly
\* when the member is required to be absent.
C5_FallbackChainAsDocumented ==
    (pc = "classified" /\ Len(ctx.pe_version) # 4 /\ dist.fallback_checks # <<>>) =>
        /\ dres.error = ""
        /\ dres.value = (\A i \in DOMAIN dist.fallback_checks :
                            DocumentedCheckPasses(ctx, dist.fallback_checks[i]))

\* C6: with a version 4-tuple in the metadata the classification is the
\* version predicate applied to it and no fallback check is consulted;
\* (10,0,0,0) is ">= (10,0)"; and is_windows_10 implies is_windows_8_or_later.
C6_PrimaryPathIsVersionPredicate ==
    (pc = "classified" /\ Len(ctx.pe_version) = 4) =>
        /\ dres.error = ""
        /\ dres.value = VersionCheck(dist.version_check, ctx.pe_version)
        /\ dres.consulted = 0
        /\ (ctx.pe_version = <<10, 0, 0, 0>> /\ dist.version_check = is_windows_10.version_check)
              => dres.value = TRUE
        /\ method(is_windows_10, ctx).value => method(is_windows_8_or_later, ctx).value

C6_Witness ==
    /\ pc = "classified"
    /\ ctx.pe_version = <<10, 0, 0, 0>>
    /\ dist.version_check = is_windows_10.version_check
    /\ dist.fallback_checks # <<>>
    /\ ~RunFallback(ctx, dist.fallback_checks, 1).value
    /\ dres.value = TRUE

\* The images the claim names as exactly generation 7: version
\* (6, 1, revision, build), and without version metadata _OBJECT_HEADER with
\* TypeIndex and _HANDLE_TABLE with HandleCount.
NamedGeneration7(c) ==
    IF Len(c.pe_version) = 4
    THEN c.pe_version[1] = 6 /\ c.pe_version[2] = 1
    ELSE /\ has_member(c, "_OBJECT_HEADER", "TypeIndex")
         /\ has_member(c, "_HANDLE_TABLE", "HandleCount")

\* C7: when the kernel's table has no _POOL_HEADER the layout is
\* poolheader-x86 for a 32-bit image; for a 64-bit image it is
\* poolheader-x64-win7 exactly when is_windows_7 classifies the image as
\* generation 7, which it does for every version (6, 1, revision, build) and,
\* without version metadata, when _OBJECT_HEADER has TypeIndex and
\* _HANDLE_TABLE has HandleCount; otherwise it is poolheader-x64.
C7_FallbackLayoutByGeneration ==
    (module # "" /\ ~has_type(ctx, "_POOL_HEADER")) =>
        /\ ~ctx.is_64bit => module = "poolheader-x86"
        /\ ctx.is_64bit =>
              /\ module = IF method(is_windows_7, ctx).value
                          THEN "poolheader-x64-win7" ELSE "poolheader-x64"
              /\ NamedGeneration7(ctx) => module = "poolheader-x64-win7"

\* C8: generate_pool_scan scans the primary layer exactly when the image
\* classifies as is_windows_10 and the memory layer below it otherwise; every
\* hit of the scan comes from that layer and is reconstructed in the mode
\* is_windows_8_or_later gives, under the one header layout resolved.
C8_LayerChosenOnceByGeneration ==
    (entry = "generate_pool_scan" /\ pc # "created") =>
        /\ scan_layer = IF method(is_windows_10, ctx).value
                        THEN layer_name ELSE memory_layer
        /\ use_top_down = method(is_windows_8_or_later, ctx).value
        /\ module \in {"", get_pool_header_module(ctx, symbol_table)}
        /\ \A i \in DOMAIN log :
              /\ log[i].layer = scan_layer
              /\ log[i].recon > 0 => log[i].top_down = Some(use_top_down)

C8_Witness ==
    /\ entry = "generate_pool_scan"
    /\ Len(ctx.pe_version) # 4
    /\ scan_layer = layer_name
    /\ Len(log) >= 2
    /\ \A i \in DOMAIN log : log[i].recon > 0 /\ log[i].top_down = Some(TRUE)

\* result holds exactly the catalog entries whose tag is in tagset, each
\* once, in the order of the catalog.
IsSelection(result, catalog, tagset) ==
    /\ \A i \in DOMAIN result :
          result[i] \in Range(catalog) /\ result[i].tag \in tagset
    /\ \A k \in DOMAIN catalog :
          catalog[k].tag \in tagset =>
              Cardinality({i \in DOMAIN result : result[i] = catalog[k]}) = 1
    /\ \A i, j \in DOMAIN result :
          i < j => \E k, l \in DOMAIN catalog :
                      k < l /\ catalog[k] = result[i] /\ catalog[l] = result[j]

\* C9 (as stated): without a filter the full catalog is returned, and with a
\* filter, a list of tags of any length, exactly the catalog entries whose
\* tag is in the list, in catalog order.
C9_AnyFilterSelectsExactly ==
    pc # "catalog" =>
        IF IsNone(tags_filter)
        THEN pool_constraints = builtins(symbol_table)
        ELSE IsSelection(pool_constraints, builtins(symbol_table),
                         Range(Val(tags_filter)))

\* C9 (amended): without a filter or with an empty list of tags the full
\* catalog is returned; with a non-empty list exactly the catalog entries
\* whose tag is in the list, in catalog order.
C9_NonEmptyFilterSelectsExactly ==
    pc # "catalog" =>
        IF IsNone(tags_filter) \/ Val(tags_filter) = <<>>
        THEN pool_constraints = builtins(symbol_table)
        ELSE IsSelection(pool_constraints, builtins(symbol_table),
                         Range(Val(tags_filter)))

C9_Witness ==
    /\ pc # "catalog"
    /\ tags_filter = Some(<<"XXXX", "File">>)
    /\ Len(pool_constraints) = 1
    /\ pool_constraints[1].tag = "File"

\* C10: get_object is called once on every hit PoolHeaderScanner accepted
\* and never again; a hit is emitted exactly when the call returned a record;
\* after a None the scan goes on; the emitted items are the hits with a
\* record, in the order of the scan.
C10_EmittedIsReconstructedSubsequence ==
    entry = "generate_pool_scan" =>
        /\ \A i \in DOMAIN log :
              /\ log[i].recon <= 1
              /\ (log[i].recon = 1) <=> (log[i].outcome \in {"dropped", "emitted"})
              /\ (log[i].outcome = "emitted") <=> (log[i].result = "record")
              /\ (log[i].outcome = "dropped") <=> (log[i].result = "None")
              /\ (i \in Range(emitted)) <=> (log[i].result = "record")
              /\ (i < Len(log)) => log[i].outcome \in {"rejected", "dropped", "emitted"}
        /\ \A k, l \in DOMAIN emitted : k < l => emitted[k] < emitted[l]
        /\ (log # <<>> /\ Last(log).result = "None") => pc \in {"scanning", "done"}
        /\ pc = "yielded" => (log # <<>> /\ Last(emitted) = Len(log))

C10_Witness ==
    /\ entry = "generate_pool_scan"
    /\ Len(log) = 2
    /\ log[1].result = "None"
    /\ log[2].result = "record"
    /\ emitted = <<2>>

\* C11: a distinguisher with an empty fallback chain raises the configuration
\* error (ValueError), and returns neither true nor false, when the version
\* metadata is missing or is not a 4-tuple; with a version 4-tuple it returns
\* the version predicate's value without error.  No other classification
\* call raises.
C11_EmptyChainFailsFast ==
    pc = "classified" =>
        /\ (dres.error = "ValueError")
              <=> (dist.fallback_checks = <<>> /\ Len(ctx.pe_version) # 4)
        /\ dres.error \in {"", "ValueError"}
        /\ dres.error = "ValueError" => dres.consulted = 0
        /\ (dist.fallback_checks = <<>> /\ Len(ctx.pe_version) = 4) =>
              /\ dres.error = ""
              /\ dres.value = VersionCheck(dist.version_check, ctx.pe_version)

C11_Witness ==
    /\ pc = "classified"
    /\ dist.fallback_checks = <<>>
    /\ ctx.pe_version = <<6, 1, 7601>>
    /\ dres.error = "ValueError"

\* C12: the tags of the built-in catalog are pairwise distinct; for every
\* tags_filter (none, the empty list, any list of tags, repeated tags
\* included) the list builtin_constraints returns holds at most one
\* constraint per tag, and pool_scan's setup on it does not raise the
\* duplicate-tag ValueError: it builds a dictionary with one key per entry.
C12_CatalogNeverDuplicatesTag ==
    /\ ~HasDuplicateTag(builtins(symbol_table))
    /\ pc # "catalog" => ~HasDuplicateTag(pool_constraints)
    /\ pc # "error"
    /\ error = ""
    /\ pc = "lookup_built" =>
          /\ DOMAIN constraint_lookup = {pool_constraints[i].tag : i \in DOMAIN pool_constraints}
          /\ Cardinality(DOMAIN constraint_lookup) = Len(pool_constraints)
          /\ \A i \in DOMAIN pool_constraints :
                constraint_lookup[pool_constraints[i].tag] = pool_constraints[i]

C12_Witness ==
    /\ pc = "lookup_built"
    /\ tags_filter = Some(<<"File", "File">>)
    /\ Len(pool_constraints) = 1
    /\ DOMAIN constraint_lookup = {"File"}
    /\ error = ""

====
